---- MODULE Spec2Model ----
(***************************************************************************)
(* Model of the equipment tracking core (backend/services/                 *)
(* tracking_service.py) and of the tracking router that serves it          *)
(* (backend/routers/tracking.py).                                          *)
(*                                                                         *)
(* Timestamps are whole seconds, distances whole metres.  Costs are fixed  *)
(* point numbers in millionths (CostUnit), confidences in thousandths      *)
(* (the code rounds them to 3 decimals).                                   *)
(***************************************************************************)
EXTENDS Integers, Sequences, FiniteSets, TLC

(* ---------------- bounds of the model ---------------- *)
MaxDets == 5
FloatDigits == 2

Times == {0, 3, 6, 10, 16, 20, 56}
NodeIds == {1, 2, 3}
Classes == {"monitor", "pump"}
UuidSources == {<<"u1", "u2", "u3", "u4">>, <<"u4", "u3", "u2", "u1">>}

(* ---------------- program constants ---------------- *)
WindowGap == 5
CostUnit == 1000000
ConfUnit == 1000
Inf == -1
None == -2
BadString == -3
OtherType == -4

(* speed_config / association defaults, tracking_service.py 113-115, 158-159 *)
NormalSpeedTenths == 13
TimePad == 8
WeightDist == 400000
WeightTime == 400000
DistRef == 20
DistScale == 30
ReviewThreshold == 500

(* ---------------- sequence helpers ---------------- *)
Range(s) == {s[i] : i \in DOMAIN s}

Abs(x) == IF x < 0 THEN -x ELSE x

Max2(a, b) == IF a >= b THEN a ELSE b

RECURSIVE SetToSeq(_)
SetToSeq(S) ==
    IF S = {} THEN <<>>
    ELSE LET x == CHOOSE y \in S : \A z \in S : y <= z
         IN <<x>> \o SetToSeq(S \ {x})

(* ---------------- topology configuration ---------------- *)
(* The documents config/topology.yaml may hold.  "missing": no file.       *)
(* "empty": the document is empty (yaml.safe_load gives None).  "bad_edge":*)
(* an edge lacks distance_m.                                               *)
LineNodes == <<[id |-> 1], [id |-> 2], [id |-> 3]>>

ConfigDocs ==
    [ line     |-> [kind |-> "ok", nodes |-> LineNodes,
                    edges |-> << [from |-> 1, to |-> 2, distance_m |-> 10],
                                 [from |-> 2, to |-> 3, distance_m |-> 20] >>],
      island   |-> [kind |-> "ok", nodes |-> LineNodes,
                    edges |-> << [from |-> 1, to |-> 2, distance_m |-> 10] >>],
      bad_edge |-> [kind |-> "bad_edge", nodes |-> LineNodes,
                    edges |-> << [from |-> 1, to |-> 2, distance_m |-> 10],
                                 [from |-> 2, to |-> 3, distance_m |-> None] >>],
      empty    |-> [kind |-> "empty", nodes |-> <<>>, edges |-> <<>>],
      missing  |-> [kind |-> "missing", nodes |-> <<>>, edges |-> <<>>] ]

GoodConfigs == {"line", "island"}
AllConfigs == {"line", "island", "bad_edge", "empty", "missing"}

(* ---------------- TopologyGraph ---------------- *)
(* _build_graph: the nodes of the nx.Graph are the listed node ids and the *)
(* end points of the edges; a later edge between the same pair replaces    *)
(* the weight of an earlier one; the graph is undirected.                  *)
GraphNodes(ns, es) ==
    {ns[i].id : i \in DOMAIN ns} \cup {es[i].from : i \in DOMAIN es}
                                 \cup {es[i].to : i \in DOMAIN es}

EdgeIdx(es, a, b) ==
    {i \in DOMAIN es : \/ (es[i].from = a /\ es[i].to = b)
                       \/ (es[i].from = b /\ es[i].to = a)}

HasEdge(es, a, b) == EdgeIdx(es, a, b) # {}

Weight(es, a, b) ==
    LET last == CHOOSE i \in EdgeIdx(es, a, b) : \A j \in EdgeIdx(es, a, b) : j <= i
    IN es[last].distance_m

(* Python float addition, as Dijkstra's "dist[v] + cost" does it: the      *)
(* exact sum rounded (half to even) to the precision of the format.  The   *)
(* format of the model keeps FloatDigits significant decimal digits (a     *)
(* CPython float keeps 53 binary digits); a sum within the precision is    *)
(* exact (so are the sums of the int distances of ConfigDocs).             *)
RECURSIVE Pow10(_)
Pow10(n) == IF n = 0 THEN 1 ELSE 10 * Pow10(n - 1)

RECURSIVE FloatScale(_, _)
FloatScale(x, scale) ==
    IF x \div scale < Pow10(FloatDigits) THEN scale ELSE FloatScale(x, 10 * scale)

FloatRound(x) ==
    LET scale == FloatScale(x, 1)
        q == x \div scale
        r == x % scale
    IN IF 2 * r > scale THEN (q + 1) * scale
       ELSE IF 2 * r = scale THEN (q + (q % 2)) * scale
       ELSE q * scale

FloatAdd(x, y) == FloatRound(x + y)

(* nx.single_source_dijkstra_path_length: the distance to every node that  *)
(* can be reached from source, source itself included (0).                 *)
RECURSIVE Relax(_, _, _, _)
Relax(es, V, d, n) ==
    IF n = 0 THEN d
    ELSE LET cand(v) == {FloatAdd(d[u], Weight(es, u, v)) :
                            u \in {w \in DOMAIN d : HasEdge(es, w, v)}}
             best(v) == (IF v \in DOMAIN d THEN {d[v]} ELSE {}) \cup cand(v)
             reach == {v \in V : best(v) # {}}
             d2 == [v \in reach |-> CHOOSE x \in best(v) : \A y \in best(v) : x <= y]
         IN Relax(es, V, d2, n - 1)

SingleSourceDijkstra(es, V, source) ==
    Relax(es, V, [v \in {source} |-> 0], Cardinality(V))

ComputeShortestPaths(ns, es) ==
    LET V == GraphNodes(ns, es)
    IN [source \in V |-> SingleSourceDijkstra(es, V, source)]

(* get_distance: None when the source has no table or the target is not in it *)
GetDistance(sp, from_node_id, to_node_id) ==
    IF from_node_id \notin DOMAIN sp THEN None
    ELSE IF to_node_id \in DOMAIN sp[from_node_id]
         THEN sp[from_node_id][to_node_id]
         ELSE None

(* The TrackingService object as __init__ leaves it.                       *)
NewService ==
    [nodes |-> <<>>, edges |-> <<>>, shortest_paths |-> <<>>, config |-> "dict"]

(* load_topology on document c: the object afterwards and whether the call *)
(* returned (TRUE) or raised (FALSE).  The assignments made before the     *)
(* exception stay.                                                         *)
LoadDoc(svc, doc) ==
    CASE doc.kind = "missing" -> [svc |-> svc, ok |-> FALSE]
      [] doc.kind = "empty" ->
             [svc |-> [svc EXCEPT !.config = "None"], ok |-> FALSE]
      [] doc.kind = "bad_edge" ->
             [svc |-> [svc EXCEPT !.config = "dict", !.nodes = doc.nodes,
                                  !.edges = doc.edges],
              ok |-> FALSE]
      [] OTHER ->
             [svc |-> [nodes |-> doc.nodes, edges |-> doc.edges,
                       shortest_paths |-> ComputeShortestPaths(doc.nodes, doc.edges),
                       config |-> "dict"],
              ok |-> TRUE]

LoadTopology(svc, c) == LoadDoc(svc, ConfigDocs[c])

LoadedService(c) == LoadTopology(NewService, c).svc

(* ---------------- detections: parse, sort, windows ---------------- *)
(* A request detection is [det_id, ts, class, node_id].  ts is a time, or  *)
(* None (no "ts" key), BadString (a string that is not ISO-8601) or        *)
(* OtherType (neither a string nor a datetime); class "absent" and         *)
(* node_id None stand for an absent key.                                   *)
(* Mutant of IsTimestamp: the check of line 220 is missing, a value that   *)
(* is neither a string nor a datetime is kept.                             *)
IsTimestampNoTypeCheck(ts) == ts >= 0 \/ ts = OtherType

IsTimestamp(ts) == ts >= 0

ParseOne(det) ==
    [det_id  |-> det.det_id,
     ts      |-> det.ts,
     class   |-> IF det.class = "absent" THEN "equipment" ELSE det.class,
     node_id |-> IF det.node_id = None THEN 1 ELSE det.node_id]

ParseDetections(dets) ==
    SelectSeq([i \in DOMAIN dets |-> ParseOne(dets[i])], LAMBDA d : IsTimestamp(d.ts))

(* sorted(parsed_detections, key=ts): stable *)
RECURSIVE InsertByTs(_, _)
InsertByTs(sorted, d) ==
    IF sorted = <<>> THEN <<d>>
    ELSE IF sorted[Len(sorted)].ts <= d.ts THEN Append(sorted, d)
    ELSE Append(InsertByTs(SubSeq(sorted, 1, Len(sorted) - 1), d), sorted[Len(sorted)])

RECURSIVE SortByTs(_)
SortByTs(dets) ==
    IF dets = <<>> THEN <<>>
    ELSE InsertByTs(SortByTs(SubSeq(dets, 1, Len(dets) - 1)), dets[Len(dets)])

(* The window loop: a detection more than WindowGap seconds after the      *)
(* FIRST detection of the current window opens a new window.               *)
(* Mutant of WindowLoop: the window still being filled when the loop ends  *)
(* is not appended (lines 264-265 missing).                                *)
RECURSIVE WindowLoopForgetsLast(_, _, _, _, _)
WindowLoopForgetsLast(sorted_dets, i, windows, current_window, current_time) ==
    IF i > Len(sorted_dets)
    THEN windows
    ELSE LET det == sorted_dets[i]
         IN IF det.ts - current_time > WindowGap
            THEN WindowLoopForgetsLast(sorted_dets, i + 1,
                            IF current_window # <<>> THEN Append(windows, current_window)
                                                     ELSE windows,
                            <<det>>, det.ts)
            ELSE WindowLoopForgetsLast(sorted_dets, i + 1, windows,
                            Append(current_window, det), current_time)

RECURSIVE WindowLoop(_, _, _, _, _)
WindowLoop(sorted_dets, i, windows, current_window, current_time) ==
    IF i > Len(sorted_dets)
    THEN IF current_window # <<>> THEN Append(windows, current_window) ELSE windows
    ELSE LET det == sorted_dets[i]
         IN IF det.ts - current_time > WindowGap
            THEN WindowLoop(sorted_dets, i + 1,
                            IF current_window # <<>> THEN Append(windows, current_window)
                                                     ELSE windows,
                            <<det>>, det.ts)
            ELSE WindowLoop(sorted_dets, i + 1, windows,
                            Append(current_window, det), current_time)

MakeWindows(sorted_dets) ==
    WindowLoop(sorted_dets, 1, <<>>, <<>>, sorted_dets[1].ts)

(* ---------------- exits and entries ---------------- *)
(* exits_by_node / entries_by_node are dicts: list(values()) is in order   *)
(* of first appearance of the node; a later detection replaces the kept    *)
(* one only when its ts is strictly later (exit) / earlier (entry).        *)
IndexOfNode(kept, node_id) ==
    CHOOSE i \in DOMAIN kept : kept[i].node_id = node_id

RECURSIVE ByNodeLoop(_, _, _, _)
ByNodeLoop(window, i, kept, latest) ==
    IF i > Len(window) THEN kept
    ELSE LET det == window[i]
             seen == \E j \in DOMAIN kept : kept[j].node_id = det.node_id
             j == IndexOfNode(kept, det.node_id)
             better == IF latest THEN det.ts > kept[j].ts ELSE det.ts < kept[j].ts
         IN IF ~seen THEN ByNodeLoop(window, i + 1, Append(kept, det), latest)
            ELSE IF better THEN ByNodeLoop(window, i + 1, [kept EXCEPT ![j] = det], latest)
            ELSE ByNodeLoop(window, i + 1, kept, latest)

(* Mutant of FindExits: the comparison of the entries is used, the         *)
(* earliest detection of a node is kept.                                   *)
FindExitsEarliest(prev_window) == ByNodeLoop(prev_window, 1, <<>>, FALSE)

FindExits(prev_window) == ByNodeLoop(prev_window, 1, <<>>, TRUE)

FindEntries(curr_window) == ByNodeLoop(curr_window, 1, <<>>, FALSE)

(* ---------------- CostMatrixBuilder ---------------- *)
(* One cell of build_cost_matrix.  expected_time = dist / 1.3, so with     *)
(* a = actual_time and d = dist (integers):                                *)
(*   a < 0.3 * expected      <=>  13 a < 3 d                               *)
(*   a > 3 * expected + pad  <=>  13 a > 30 d + 13 pad                     *)
(*   time_dev = |a - expected| / max(expected, 1) = |13a - 10d| / max(10d, 13) *)
(* Mutant of CostCell: the upper time gate (time_upper) is missing.         *)
CostCellNoUpperGate(sp, exit_det, entry_det) ==
    LET from_node == exit_det.node_id
        to_node == entry_det.node_id
        dist == GetDistance(sp, from_node, to_node)
        actual_time == entry_det.ts - exit_det.ts
        a13 == NormalSpeedTenths * actual_time
        dist_dev == IF dist > 0 THEN (WeightDist * Abs(dist - DistRef)) \div DistScale ELSE 0
        time_dev == (WeightTime * Abs(a13 - 10 * dist)) \div Max2(10 * dist, NormalSpeedTenths)
    IN IF from_node = to_node THEN Inf
       ELSE IF dist = None THEN Inf
       ELSE IF actual_time < 0 THEN Inf
       ELSE IF a13 < 3 * dist THEN Inf
       ELSE dist_dev + time_dev

(* Mutant of CostCell: the same-node skip is missing (a node is at         *)
(* distance 0 of itself in the shortest-path table).                      *)
CostCellNoSameNodeSkip(sp, exit_det, entry_det) ==
    LET dist == GetDistance(sp, exit_det.node_id, entry_det.node_id)
        actual_time == entry_det.ts - exit_det.ts
        a13 == NormalSpeedTenths * actual_time
        dist_dev == IF dist > 0 THEN (WeightDist * Abs(dist - DistRef)) \div DistScale ELSE 0
        time_dev == (WeightTime * Abs(a13 - 10 * dist)) \div Max2(10 * dist, NormalSpeedTenths)
    IN IF dist = None THEN Inf
       ELSE IF actual_time < 0 THEN Inf
       ELSE IF a13 < 3 * dist \/ a13 > 30 * dist + NormalSpeedTenths * TimePad THEN Inf
       ELSE dist_dev + time_dev

CostCell(sp, exit_det, entry_det) ==
    LET from_node == exit_det.node_id
        to_node == entry_det.node_id
        dist == GetDistance(sp, from_node, to_node)
        actual_time == entry_det.ts - exit_det.ts
        a13 == NormalSpeedTenths * actual_time
        dist_dev == IF dist > 0 THEN (WeightDist * Abs(dist - DistRef)) \div DistScale ELSE 0
        time_dev == (WeightTime * Abs(a13 - 10 * dist)) \div Max2(10 * dist, NormalSpeedTenths)
    IN IF from_node = to_node THEN Inf
       ELSE IF dist = None THEN Inf
       ELSE IF actual_time < 0 THEN Inf
       ELSE IF a13 < 3 * dist \/ a13 > 30 * dist + NormalSpeedTenths * TimePad THEN Inf
       ELSE dist_dev + time_dev

BuildCostMatrix(sp, exits_, entries_) ==
    [i \in DOMAIN exits_ |-> [j \in DOMAIN entries_ |-> CostCell(sp, exits_[i], entries_[j])]]

IsInf(x) == x = Inf

AllInf(M) == \A i \in DOMAIN M : \A j \in DOMAIN M[i] : IsInf(M[i][j])

(* ---------------- AssignmentSolver ---------------- *)
(* scipy.optimize.linear_sum_assignment on an m x n matrix with inf cells: *)
(* a minimum-cost assignment of min(m, n) pairs over finite cells, rows    *)
(* ascending; ValueError("cost matrix is infeasible") when no assignment   *)
(* of min(m, n) pairs over finite cells exists.  Which of several minimum  *)
(* cost assignments is returned is left open.                              *)
Injections(A, B) == {f \in [A -> B] : \A x, y \in A : x # y => f[x] # f[y]}

RECURSIVE SumCost(_, _, _)
SumCost(M, pairs, i) ==
    IF i > Len(pairs) THEN 0
    ELSE M[pairs[i][1]][pairs[i][2]] + SumCost(M, pairs, i + 1)

Assignments(M) ==
    LET m == Len(M)
        n == Len(M[1])
    IN IF m <= n
       THEN {[i \in 1..m |-> <<i, f[i]>>] : f \in Injections(1..m, 1..n)}
       ELSE {LET rows == SetToSeq({g[j] : j \in 1..n})
                 colOf(r) == CHOOSE j \in 1..n : g[j] = r
             IN [i \in 1..n |-> <<rows[i], colOf(rows[i])>>] : g \in Injections(1..n, 1..m)}

FeasibleAssignments(M) ==
    {a \in Assignments(M) : \A i \in DOMAIN a : ~IsInf(M[a[i][1]][a[i][2]])}

(* Mutant of LinearSumAssignment: every row takes its cheapest finite      *)
(* column on its own, columns are not reserved.                            *)
LinearSumAssignmentRowMin(M) ==
    LET finite(r) == {c \in DOMAIN M[r] : ~IsInf(M[r][c])}
        rows == SetToSeq({r \in DOMAIN M : finite(r) # {}})
        best(r) == CHOOSE c \in finite(r) :
                      \A d \in finite(r) : M[r][c] < M[r][d] \/ (M[r][c] = M[r][d] /\ c <= d)
    IN {[i \in DOMAIN rows |-> <<rows[i], best(rows[i])>>]}

LinearSumAssignment(M) ==
    LET F == FeasibleAssignments(M)
    IN {a \in F : \A b \in F : SumCost(M, a, 1) <= SumCost(M, b, 1)}

(* ---------------- ConfidenceScorer ---------------- *)
(* round(max(0, 1 - cost), 3), in thousandths *)
RoundMilli(x) ==
    LET q == x \div (CostUnit \div ConfUnit)
        r == x % (CostUnit \div ConfUnit)
        half == (CostUnit \div ConfUnit) \div 2
    IN IF r > half THEN q + 1
       ELSE IF r = half THEN q + (q % 2)
       ELSE q

(* Mutant of ComputeLinkConfidence: max(0, ...) is missing. *)
ComputeLinkConfidenceNoClamp(cost) == RoundMilli(CostUnit - cost)

ComputeLinkConfidence(cost) == RoundMilli(Max2(0, CostUnit - cost))

(* Arbitrary precision naturals, little endian limbs of base 10000, for    *)
(* the n-th root of a product of n confidences.                            *)
BigBase == 10000

RECURSIVE BigMulCarry(_, _, _, _)
BigMulCarry(a, k, i, carry) ==
    IF i > Len(a)
    THEN IF carry = 0 THEN <<>> ELSE <<carry % BigBase>> \o BigMulCarry(a, k, i, carry \div BigBase)
    ELSE LET v == a[i] * k + carry
         IN <<v % BigBase>> \o BigMulCarry(a, k, i + 1, v \div BigBase)

RECURSIVE BigTrim(_)
BigTrim(a) ==
    IF a # <<>> /\ a[Len(a)] = 0 THEN BigTrim(SubSeq(a, 1, Len(a) - 1)) ELSE a

BigMul(a, k) == BigTrim(BigMulCarry(a, k, 1, 0))

RECURSIVE BigLessFrom(_, _, _)
BigLessFrom(a, b, i) ==
    IF i = 0 THEN FALSE
    ELSE IF a[i] # b[i] THEN a[i] < b[i]
    ELSE BigLessFrom(a, b, i - 1)

BigLess(a, b) ==
    IF Len(a) # Len(b) THEN Len(a) < Len(b) ELSE BigLessFrom(a, b, Len(a))

RECURSIVE BigPow(_, _)
BigPow(k, n) == IF n = 0 THEN <<1>> ELSE BigMul(BigPow(k, n - 1), k)

RECURSIVE BigProd2(_, _)
BigProd2(cs, i) == IF i = 0 THEN <<1>> ELSE BigMul(BigProd2(cs, i - 1), 2 * cs[i])

(* round(prod(cs) ** (1/n), 3) in thousandths: the least x with            *)
(* 2^n prod(cs) < (2x + 1)^n                                               *)
RECURSIVE RootSearch(_, _, _, _)
RootSearch(p2, n, lo, hi) ==
    IF lo = hi THEN lo
    ELSE LET mid == (lo + hi) \div 2
         IN IF BigLess(p2, BigPow(2 * mid + 1, n))
            THEN RootSearch(p2, n, lo, mid)
            ELSE RootSearch(p2, n, mid + 1, hi)

GeometricMean(cs) == RootSearch(BigProd2(cs, Len(cs)), Len(cs), 0, ConfUnit)

(* Mutant of FinalizeTrack: lines 387-388 are missing, the status is left  *)
(* as it was.                                                              *)
FinalizeTrackKeepsStatus(track) ==
    LET conf == IF track.links # <<>>
                THEN GeometricMean([i \in DOMAIN track.links |-> track.links[i].confidence])
                ELSE 0
    IN [track EXCEPT !.confidence = conf]

(* _finalize_track *)
FinalizeTrack(track) ==
    LET conf == IF track.links # <<>>
                THEN GeometricMean([i \in DOMAIN track.links |-> track.links[i].confidence])
                ELSE 0
    IN [track EXCEPT !.confidence = conf,
                     !.status = IF conf < ReviewThreshold THEN "needs_review" ELSE @]

(* ---------------- MemoryStore ---------------- *)
(* memory/memory_store.py.  A store is the three in-memory collections;    *)
(* the data directory is the three files, each absent or holding the JSON  *)
(* document last written.  pattern_memories and location_frequency are     *)
(* dicts in insertion order: sequences of entries with distinct keys.      *)
(* last_updated of a pattern is not modelled.                              *)
ObjectNames == {"keys", "Keys", "phone"}

Locations == {"counter", "desk"}

Timestamps == {1, 2}

Descriptions == {"upload"}

(* str.lower() *)
Lower(name) == IF name = "Keys" THEN "keys" ELSE name

(* json.dump(..., default=str) of a datetime and pydantic's parse of it *)
DatetimeStr(t) == <<"datetime", t>>

ParseDatetime(str) == str[2]

(* mem.dict() written as JSON, and the model object built from it on load *)
DumpMemory(m) == [m EXCEPT !.timestamp = DatetimeStr(m.timestamp)]

ParseMemory(d) == [d EXCEPT !.timestamp = ParseDatetime(d.timestamp)]

DumpAll(mems) == [i \in DOMAIN mems |-> DumpMemory(mems[i])]

ParseAll(data) == [i \in DOMAIN data |-> ParseMemory(data[i])]

NoFile == [exists |-> FALSE, data |-> <<>>]

NoFiles == [memory_file |-> NoFile, patterns_file |-> NoFile, system_file |-> NoFile]

EmptyStore == [object_memories |-> <<>>, pattern_memories |-> <<>>, system_memories |-> <<>>]

(* _load_all_memories: a file that does not exist leaves its collection   *)
(* empty. *)
LoadAllMemories(files) ==
    [object_memories |-> IF files.memory_file.exists
                         THEN ParseAll(files.memory_file.data) ELSE <<>>,
     pattern_memories |-> IF files.patterns_file.exists
                          THEN files.patterns_file.data ELSE <<>>,
     system_memories |-> IF files.system_file.exists
                         THEN ParseAll(files.system_file.data) ELSE <<>>]

SaveObjectMemories(files, store) ==
    [files EXCEPT !.memory_file = [exists |-> TRUE, data |-> DumpAll(store.object_memories)]]

SavePatternMemories(files, store) ==
    [files EXCEPT !.patterns_file = [exists |-> TRUE, data |-> store.pattern_memories]]

SaveSystemMemories(files, store) ==
    [files EXCEPT !.system_file = [exists |-> TRUE, data |-> DumpAll(store.system_memories)]]

KeyIndex(dict, key) ==
    IF \E i \in DOMAIN dict : dict[i].key = key
    THEN CHOOSE i \in DOMAIN dict : dict[i].key = key
    ELSE 0

(* location_frequency[location] = location_frequency.get(location, 0) + 1 *)
CountLocation(freq, location) ==
    LET i == KeyIndex(freq, location)
    IN IF i = 0 THEN Append(freq, [key |-> location, n |-> 1])
       ELSE [freq EXCEPT ![i].n = @ + 1]

(* max(location_frequency.items(), key=count): the first entry with the   *)
(* largest count. *)
MostCommon(freq) ==
    LET i == CHOOSE i \in DOMAIN freq :
                 /\ \A j \in DOMAIN freq : freq[j].n <= freq[i].n
                 /\ \A j \in 1..(i - 1) : freq[j].n < freq[i].n
    IN freq[i]

NewPattern(obj_name) ==
    [key |-> obj_name, location_frequency |-> <<>>, total_observations |-> 0,
     most_common_location |-> "none", consistency_score |-> 0]

(* _update_object_patterns on the pair of store and files: the pattern of *)
(* the lower-cased name is created or updated and the patterns are saved. *)
(* consistency_score is in thousandths. *)
UpdateObjectPatterns(ms, memory) ==
    LET obj_name == Lower(memory.object_name)
        had == ms.store.pattern_memories
        dict == IF KeyIndex(had, obj_name) = 0 THEN Append(had, NewPattern(obj_name)) ELSE had
        i == KeyIndex(dict, obj_name)
        freq == CountLocation(dict[i].location_frequency, memory.location_description)
        total == dict[i].total_observations + 1
        most == MostCommon(freq)
        pattern == [key |-> obj_name, location_frequency |-> freq,
                    total_observations |-> total,
                    most_common_location |-> most.key,
                    consistency_score |-> (1000 * most.n) \div total]
        store == [ms.store EXCEPT !.pattern_memories = [dict EXCEPT ![i] = pattern]]
    IN [store |-> store, files |-> SavePatternMemories(ms.files, store)]

RECURSIVE RebuildPatterns(_, _, _)
RebuildPatterns(ms, mems, i) ==
    IF i > Len(mems) THEN ms
    ELSE RebuildPatterns(UpdateObjectPatterns(ms, mems[i]), mems, i + 1)

(* _recalculate_all_patterns: clears the dict, then one                   *)
(* _update_object_patterns per remaining memory. *)
RecalculateAllPatterns(ms) ==
    RebuildPatterns([ms EXCEPT !.store.pattern_memories = <<>>],
                    ms.store.object_memories, 1)

(* store_object_memory *)
StoreObjectMemoryOp(ms, memory) ==
    LET appended == [ms EXCEPT !.store.object_memories = Append(@, memory)]
        updated == UpdateObjectPatterns(appended, memory)
    IN [updated EXCEPT !.files = SaveObjectMemories(updated.files, updated.store)]

(* delete_object_memory *)
DeleteObjectMemoryOp(ms, memory_id) ==
    LET kept == SelectSeq(ms.store.object_memories, LAMBDA m : m.id # memory_id)
    IN IF Len(kept) < Len(ms.store.object_memories)
       THEN LET removed == [ms EXCEPT !.store.object_memories = kept]
                saved == [removed EXCEPT !.files = SaveObjectMemories(removed.files, removed.store)]
            IN RecalculateAllPatterns(saved)
       ELSE ms

(* store_system_memory *)
StoreSystemMemoryOp(ms, memory) ==
    LET appended == [ms EXCEPT !.store.system_memories = Append(@, memory)]
    IN [appended EXCEPT !.files = SaveSystemMemories(appended.files, appended.store)]

(* reset_all_memories: the collections are emptied and the files unlinked *)
ResetAllMemoriesOp(ms) == [store |-> EmptyStore, files |-> NoFiles]

(* ---------------- state ---------------- *)
VARIABLES
    config_doc,        \* the document at config/topology.yaml
    tracking_service,  \* routers/tracking.py global: [is_none, obj]
    tracks_file,       \* data/tracks.json: the stored track list
    request,           \* the request being served, "none" when idle
    response,          \* the last response sent
    served,            \* number of requests answered
    prev_call,         \* history: argument and result of the last call that returned
    memory_store,      \* the MemoryStore instance: its three in-memory collections
    memory_files,      \* the three JSON files of the data directory
    pc,                \* position inside associate_detections
    detections,        \* the argument of the call
    windows, window_idx,
    exits, entries, C,
    matches, k,        \* zip(row_ind, col_ind) and the position in it
    matched_exits, ui, \* matched rows; position of the unmatched-exits loop
    open_tracks,       \* ordered dict node_id -> list of tracks
    tracks,            \* the output list
    used_ids,          \* track ids generated so far
    uuid_source,       \* the values uuid.uuid4() returns, in order
    outcome,           \* "running", "returned" or the exception raised
    open_before,       \* history: open_tracks when the transition began
    last_step          \* history: what the last step of the call did

routerVars == <<config_doc, tracking_service, tracks_file, request, response, served,
                prev_call, memory_store, memory_files>>
memoryVars == <<memory_store, memory_files>>
callVars == <<pc, uuid_source, detections, windows, window_idx, exits, entries, C,
              matches, k, matched_exits, ui, open_tracks, tracks, used_ids,
              outcome, open_before, last_step>>
transitionVars == <<exits, entries, C, matches, k, matched_exits, ui>>
vars == <<routerVars, callVars>>

(* ---------------- the open-track map ---------------- *)
HasKey(ot, node_id) == \E i \in DOMAIN ot : ot[i].node_id = node_id

KeyIdx(ot, node_id) == CHOOSE i \in DOMAIN ot : ot[i].node_id = node_id

OpenAt(ot, node_id) == IF HasKey(ot, node_id) THEN ot[KeyIdx(ot, node_id)].tracks ELSE <<>>

(* open_tracks[node_id].pop(): the map without the last track of node_id *)
PopAt(ot, node_id) ==
    [ot EXCEPT ![KeyIdx(ot, node_id)].tracks = SubSeq(@, 1, Len(@) - 1)]

(* Mutant of Top: the oldest track of the list is taken (FIFO). *)
TopOldest(ot, node_id) == LET l == OpenAt(ot, node_id) IN l[1]

(* the track pop() returns: the last of the list *)
Top(ot, node_id) == LET l == OpenAt(ot, node_id) IN l[Len(l)]

(* Mutant of PushAt: the track is stored under the node it left. *)
PushAtFromNode(ot, node_id, track) ==
    LET from_node == track.links[Len(track.links)].from_node_id
    IN IF HasKey(ot, from_node)
       THEN [ot EXCEPT ![KeyIdx(ot, from_node)].tracks = Append(@, track)]
       ELSE Append(ot, [node_id |-> from_node, tracks |-> <<track>>])

(* if node not in open_tracks: open_tracks[node] = []; then append *)
PushAt(ot, node_id, track) ==
    IF HasKey(ot, node_id)
    THEN [ot EXCEPT ![KeyIdx(ot, node_id)].tracks = Append(@, track)]
    ELSE Append(ot, [node_id |-> node_id, tracks |-> <<track>>])

RECURSIVE Flatten(_, _)
Flatten(ot, i) ==
    IF i > Len(ot) THEN <<>> ELSE ot[i].tracks \o Flatten(ot, i + 1)

(* Mutant of RemainingOpen: only the first node's list is visited. *)
RemainingOpenFirstNode(ot) == IF ot = <<>> THEN <<>> ELSE ot[1].tracks

(* "for node_tracks in open_tracks.values(): for track in node_tracks" *)
RemainingOpen(ot) == Flatten(ot, 1)

(* ---------------- track and link records ---------------- *)
NewTrack(track_id, exit_det) ==
    [track_id |-> track_id, class |-> exit_det.class, links |-> <<>>,
     confidence |-> 0, status |-> "active"]

(* Mutant of MakeLink: the two timestamps are exchanged. *)
MakeLinkSwapped(exit_det, entry_det, link_conf) ==
    [from_node_id |-> exit_det.node_id, to_node_id |-> entry_det.node_id,
     t_exit |-> entry_det.ts, t_entry |-> exit_det.ts, confidence |-> link_conf]

MakeLink(exit_det, entry_det, link_conf) ==
    [from_node_id |-> exit_det.node_id, to_node_id |-> entry_det.node_id,
     t_exit |-> exit_det.ts, t_entry |-> entry_det.ts, confidence |-> link_conf]

NoStep == [kind |-> "none"]

(* _generate_track_id: the next value of the uuid4 source *)
GenerateTrackId(source, used) == source[Cardinality(used) + 1]

NoResponse == [endpoint |-> "none", status |-> 0]

NoCall == [returned |-> FALSE, detections |-> <<>>, tracks |-> <<>>]

(* ---------------- associate_detections, step by step ---------------- *)
svc == tracking_service.obj

(* Mutant of Segment: open_tracks is not created by the call (line 269)    *)
(* but kept from one call to the next, as an attribute of the service      *)
(* would be.                                                               *)
SegmentSharedOpenTracks ==
    /\ pc = "start"
    /\ LET parsed == ParseDetections(detections)
       IN IF detections = <<>> \/ parsed = <<>>
          THEN /\ pc' = "done"
               /\ outcome' = "returned"
               /\ windows' = <<>>
          ELSE /\ pc' = "window"
               /\ outcome' = "running"
               /\ windows' = MakeWindows(SortByTs(parsed))
    /\ window_idx' = 1
    /\ tracks' = <<>>
    /\ open_before' = <<>>
    /\ used_ids' = {}
    /\ last_step' = [kind |-> "segment"]
    /\ UNCHANGED <<uuid_source, detections, open_tracks, transitionVars, routerVars>>

(* Mutant of Segment: the check of lines 236-237 is missing, so that       *)
(* sorted_dets[0] (line 253) raises IndexError when nothing was parsed.    *)
SegmentNoEmptyCheck ==
    /\ pc = "start"
    /\ LET parsed == ParseDetections(detections)
       IN IF detections = <<>>
          THEN /\ pc' = "done"
               /\ outcome' = "returned"
               /\ windows' = <<>>
          ELSE IF parsed = <<>>
          THEN /\ pc' = "error"
               /\ outcome' = "IndexError"
               /\ windows' = <<>>
          ELSE /\ pc' = "window"
               /\ outcome' = "running"
               /\ windows' = MakeWindows(SortByTs(parsed))
    /\ window_idx' = 1
    /\ tracks' = <<>>
    /\ open_tracks' = <<>>
    /\ open_before' = <<>>
    /\ used_ids' = {}
    /\ last_step' = [kind |-> "segment"]
    /\ UNCHANGED <<uuid_source, detections, transitionVars, routerVars>>

(* Lines 208-265: empty input, parsing, sorting, windowing. *)
Segment ==
    /\ pc = "start"
    /\ LET parsed == ParseDetections(detections)
       IN IF detections = <<>> \/ parsed = <<>>
          THEN /\ pc' = "done"
               /\ outcome' = "returned"
               /\ windows' = <<>>
          ELSE /\ pc' = "window"
               /\ outcome' = "running"
               /\ windows' = MakeWindows(SortByTs(parsed))
    /\ window_idx' = 1
    /\ tracks' = <<>>
    /\ open_tracks' = <<>>
    /\ open_before' = <<>>
    /\ used_ids' = {}
    /\ last_step' = [kind |-> "segment"]
    /\ UNCHANGED <<uuid_source, detections, transitionVars, routerVars>>

InTransition == pc = "window" /\ window_idx < Len(windows)

NextExits == FindExits(windows[window_idx])
NextEntries == FindEntries(windows[window_idx + 1])
NextC == BuildCostMatrix(svc.shortest_paths, NextExits, NextEntries)

(* Lines 301-308: "if not exits or not entries: continue" and              *)
(* "if np.all(np.isinf(C)): continue": the rest of the loop body, the      *)
(* unmatched-exits loop included, is skipped.                              *)
SkipTransition ==
    /\ InTransition
    /\ svc.config # "None"
    /\ NextExits = <<>> \/ NextEntries = <<>> \/ AllInf(NextC)
    /\ exits' = NextExits
    /\ entries' = NextEntries
    /\ C' = NextC
    /\ window_idx' = window_idx + 1
    /\ open_before' = open_tracks
    /\ last_step' = [kind |-> "skip"]
    /\ UNCHANGED <<pc, uuid_source, detections, windows, matches, k, matched_exits, ui,
                   open_tracks, tracks, used_ids, outcome, routerVars>>

(* Line 112: self.config.get on a config that is None raises               *)
(* AttributeError; line 310: linear_sum_assignment raises ValueError.      *)
(* Nothing in associate_detections catches either.                         *)
SolveRaises ==
    /\ InTransition
    /\ IF svc.config = "None"
       THEN outcome' = "AttributeError"
       ELSE /\ NextExits # <<>> /\ NextEntries # <<>>
            /\ ~AllInf(NextC)
            /\ LinearSumAssignment(NextC) = {}
            /\ outcome' = "ValueError"
    /\ pc' = "error"
    /\ exits' = NextExits
    /\ entries' = NextEntries
    /\ open_before' = open_tracks
    /\ last_step' = [kind |-> "raise"]
    /\ UNCHANGED <<uuid_source, detections, windows, window_idx, C, matches, k, matched_exits, ui,
                   open_tracks, tracks, used_ids, routerVars>>

(* Lines 305-314: the assignment is solved. *)
Solve ==
    /\ InTransition
    /\ svc.config # "None"
    /\ NextExits # <<>> /\ NextEntries # <<>>
    /\ ~AllInf(NextC)
    /\ \E a \in LinearSumAssignment(NextC) : matches' = a
    /\ exits' = NextExits
    /\ entries' = NextEntries
    /\ C' = NextC
    /\ k' = 1
    /\ matched_exits' = {}
    /\ ui' = 1
    /\ pc' = "match"
    /\ open_before' = open_tracks
    /\ last_step' = [kind |-> "solve"]
    /\ UNCHANGED <<uuid_source, detections, windows, window_idx, open_tracks, tracks, used_ids,
                   outcome, routerVars>>

(* Lines 316-359: one iteration of "for r, c in zip(row_ind, col_ind)". *)
CanReuse(ot, from_node) == HasKey(ot, from_node) /\ OpenAt(ot, from_node) # <<>>

(* Mutant of ProcessMatch: a fresh track is pushed without its first link; *)
(* only a reused track gets the link.                                      *)
ProcessMatchLinkOnReuse ==
    /\ pc = "match"
    /\ k <= Len(matches)
    /\ LET r == matches[k][1]
           c == matches[k][2]
           exit_det == exits[r]
           entry_det == entries[c]
           cost == C[r][c]
           from_node == exit_det.node_id
           to_node == entry_det.node_id
           reuse == CanReuse(open_tracks, from_node)
           link == MakeLink(exit_det, entry_det, ComputeLinkConfidence(cost))
       IN IF IsInf(cost)
          THEN /\ last_step' = [kind |-> "inf_match"]
               /\ UNCHANGED <<open_tracks, used_ids, matched_exits>>
          ELSE /\ reuse \/ Cardinality(used_ids) < Len(uuid_source)
               /\ LET id == GenerateTrackId(uuid_source, used_ids)
                     track == IF reuse THEN Top(open_tracks, from_node)
                                       ELSE NewTrack(id, exit_det)
                     popped == IF reuse THEN PopAt(open_tracks, from_node) ELSE open_tracks
                     extended == IF reuse THEN [track EXCEPT !.links = Append(@, link)] ELSE track
                  IN /\ open_tracks' = PushAt(popped, to_node, extended)
                     /\ used_ids' = IF reuse THEN used_ids ELSE used_ids \cup {id}
                     /\ matched_exits' = matched_exits \cup {r}
                     /\ last_step' = [kind |-> "match", reused |-> reuse,
                                      depth |-> Len(OpenAt(open_tracks, from_node)),
                                      exit_det |-> exit_det, entry_det |-> entry_det,
                                      track_id |-> track.track_id]
    /\ k' = k + 1
    /\ pc' = IF k = Len(matches) THEN "unmatched" ELSE "match"
    /\ UNCHANGED <<uuid_source, detections, windows, window_idx, exits, entries, C, matches, ui,
                   tracks, outcome, open_before, routerVars>>

ProcessMatch ==
    /\ pc = "match"
    /\ k <= Len(matches)
    /\ LET r == matches[k][1]
           c == matches[k][2]
           exit_det == exits[r]
           entry_det == entries[c]
           cost == C[r][c]
           from_node == exit_det.node_id
           to_node == entry_det.node_id
           reuse == CanReuse(open_tracks, from_node)
           link == MakeLink(exit_det, entry_det, ComputeLinkConfidence(cost))
       IN IF IsInf(cost)
          THEN /\ last_step' = [kind |-> "inf_match"]
               /\ UNCHANGED <<open_tracks, used_ids, matched_exits>>
          ELSE /\ reuse \/ Cardinality(used_ids) < Len(uuid_source)
               /\ LET id == GenerateTrackId(uuid_source, used_ids)
                     track == IF reuse THEN Top(open_tracks, from_node)
                                       ELSE NewTrack(id, exit_det)
                     popped == IF reuse THEN PopAt(open_tracks, from_node) ELSE open_tracks
                     extended == [track EXCEPT !.links = Append(@, link)]
                  IN /\ open_tracks' = PushAt(popped, to_node, extended)
                     /\ used_ids' = IF reuse THEN used_ids ELSE used_ids \cup {id}
                     /\ matched_exits' = matched_exits \cup {r}
                     /\ last_step' = [kind |-> "match", reused |-> reuse,
                                      depth |-> Len(OpenAt(open_tracks, from_node)),
                                      exit_det |-> exit_det, entry_det |-> entry_det,
                                      track_id |-> track.track_id]
    /\ k' = k + 1
    /\ pc' = IF k = Len(matches) THEN "unmatched" ELSE "match"
    /\ UNCHANGED <<uuid_source, detections, windows, window_idx, exits, entries, C, matches, ui,
                   tracks, outcome, open_before, routerVars>>

(* Lines 362-366: one iteration of "for i in range(len(exits))". *)
UnmatchedWithKey ==
    /\ ui \notin matched_exits
    /\ HasKey(open_tracks, exits[ui].node_id)

FinalizeUnmatched ==
    /\ pc = "unmatched"
    /\ ui <= Len(exits)
    /\ LET node_id == exits[ui].node_id
       IN IF UnmatchedWithKey
          THEN /\ OpenAt(open_tracks, node_id) # <<>>
               /\ open_tracks' = PopAt(open_tracks, node_id)
               /\ tracks' = Append(tracks, FinalizeTrack(Top(open_tracks, node_id)))
               /\ last_step' = [kind |-> "unmatched_pop", node_id |-> node_id,
                                track_id |-> Top(open_tracks, node_id).track_id]
          ELSE /\ UNCHANGED <<open_tracks, tracks>>
               /\ last_step' = [kind |-> IF ui \in matched_exits THEN "matched_exit"
                                                                ELSE "unmatched_drop",
                                node_id |-> node_id, track_id |-> "none"]
    /\ ui' = ui + 1
    /\ pc' = IF ui = Len(exits) THEN "window" ELSE "unmatched"
    /\ window_idx' = IF ui = Len(exits) THEN window_idx + 1 ELSE window_idx
    /\ UNCHANGED <<uuid_source, detections, windows, exits, entries, C, matches, k, matched_exits,
                   used_ids, outcome, open_before, routerVars>>

(* Line 364 on a key whose list is empty: list.pop() raises IndexError. *)
PopFromEmpty ==
    /\ pc = "unmatched"
    /\ ui <= Len(exits)
    /\ UnmatchedWithKey
    /\ OpenAt(open_tracks, exits[ui].node_id) = <<>>
    /\ pc' = "error"
    /\ outcome' = "IndexError"
    /\ last_step' = [kind |-> "raise"]
    /\ UNCHANGED <<uuid_source, detections, windows, window_idx, transitionVars, open_tracks,
                   tracks, used_ids, open_before, routerVars>>

(* Lines 368-374: every track still open is finalized, in the order of     *)
(* open_tracks.values(), and the list is returned.                         *)
FinalizeRemaining ==
    /\ pc = "window"
    /\ window_idx >= Len(windows)
    /\ LET rest == RemainingOpen(open_tracks)
       IN tracks' = tracks \o [i \in DOMAIN rest |-> FinalizeTrack(rest[i])]
    /\ pc' = "done"
    /\ outcome' = "returned"
    /\ last_step' = [kind |-> "finalize_rest"]
    /\ UNCHANGED <<uuid_source, detections, windows, window_idx, transitionVars, open_tracks,
                   used_ids, open_before, routerVars>>

CallStep ==
    \/ Segment
    \/ SkipTransition
    \/ SolveRaises
    \/ Solve
    \/ ProcessMatch
    \/ FinalizeUnmatched
    \/ PopFromEmpty
    \/ FinalizeRemaining

(* ---------------- one association call on a loaded topology ---------------- *)
(* The batches: up to MaxDets detections with distinct timestamps, given   *)
(* in timestamp order, each at any node; the classes follow one of the     *)
(* ClassPatterns (all of one class, or alternating).                       *)
ClassPatterns == {<<"monitor", "monitor">>, <<"monitor", "pump">>, <<"pump", "monitor">>}

Batch(T, nodeOf, pattern) ==
    LET ts == SetToSeq(T)
    IN [i \in 1..Len(ts) |-> [det_id |-> i, ts |-> ts[i],
                              class |-> pattern[1 + (i % 2)],
                              node_id |-> nodeOf[i]]]

CallIdle ==
    /\ windows = <<>> /\ window_idx = 1
    /\ exits = <<>> /\ entries = <<>> /\ C = <<>>
    /\ matches = <<>> /\ k = 1 /\ matched_exits = {} /\ ui = 1
    /\ open_tracks = <<>> /\ tracks = <<>> /\ used_ids = {}
    /\ outcome = "running" /\ open_before = <<>> /\ last_step = NoStep

Init ==
    /\ config_doc \in GoodConfigs
    /\ tracking_service = [is_none |-> FALSE, obj |-> LoadedService(config_doc)]
    /\ tracks_file = <<>>
    /\ request = "none"
    /\ response = NoResponse
    /\ served = 0
    /\ prev_call = NoCall
    /\ memory_store = EmptyStore
    /\ memory_files = NoFiles
    /\ pc = "start"
    /\ uuid_source = <<"u1", "u2", "u3", "u4">>
    /\ \E T \in SUBSET Times :
          /\ Cardinality(T) <= MaxDets
          /\ \E nodeOf \in [1..Cardinality(T) -> NodeIds], pattern \in ClassPatterns :
                detections = Batch(T, nodeOf, pattern)
    /\ CallIdle

Next == CallStep

Spec == Init /\ [][Next]_vars

(* ---------------- the tracking router ---------------- *)
MaxRequests == 3

Det(det_id, ts, node_id) ==
    [det_id |-> det_id, ts |-> ts, class |-> "monitor", node_id |-> node_id]

(* The request bodies of the service specification. *)
ServiceBatches ==
    { <<>>,
      <<Det(1, 0, 1)>>,
      <<Det(1, 0, 1), Det(2, 6, 2)>>,
      <<Det(1, 0, 1), Det(2, 6, 1)>>,
      <<Det(1, 0, 3), Det(2, 3, 1), Det(3, 6, 3), Det(4, 10, 2)>>,
      <<Det(1, 0, 1), Det(2, 3, 2), Det(3, 6, 1), Det(4, 10, 3)>>,
      <<Det(1, 0, 2), Det(2, 3, 1), Det(3, 6, 1), Det(4, 10, 2), Det(5, 16, 3)>> }

(* get_tracking_service: the global is assigned BEFORE load_topology runs, *)
(* so it stays assigned when load_topology raises.                         *)
GetTrackingService(ts_global, c) ==
    IF ts_global.is_none
    THEN LET loaded == LoadTopology(NewService, c)
         IN [global |-> [is_none |-> FALSE, obj |-> loaded.svc], ok |-> loaded.ok]
    ELSE [global |-> ts_global, ok |-> TRUE]

(* Lines 83-91 of the router: det['ts'] of every detection is read and, if *)
(* a string, parsed; det['det_id'], ['node_id'], ['class'] are read.       *)
RouterAccepts(dets) ==
    \A i \in DOMAIN dets :
        /\ dets[i].ts # None /\ dets[i].ts # BadString
        /\ dets[i].node_id # None
        /\ dets[i].class # "absent"

Idle == request = "none" /\ served < MaxRequests

(* POST /associate up to the call of service.associate_detections; a       *)
(* failure before the call is answered 500 at once.  Every call draws its  *)
(* own values from uuid.uuid4().                                           *)
AssociateRequest ==
    /\ Idle
    /\ \E dets \in ServiceBatches :
         LET got == GetTrackingService(tracking_service, config_doc)
         IN /\ tracking_service' = got.global
            /\ detections' = dets
            /\ IF got.ok /\ RouterAccepts(dets)
               THEN /\ request' = "associate"
                    /\ pc' = "start"
                    /\ UNCHANGED <<response, served>>
               ELSE /\ request' = "none"
                    /\ pc' = "idle"
                    /\ response' = [endpoint |-> "associate", status |-> 500]
                    /\ served' = served + 1
    /\ windows' = <<>> /\ window_idx' = 1
    /\ exits' = <<>> /\ entries' = <<>> /\ C' = <<>>
    /\ matches' = <<>> /\ k' = 1 /\ matched_exits' = {} /\ ui' = 1
    /\ tracks' = <<>> /\ used_ids' = {}
    /\ outcome' = "running" /\ open_before' = <<>> /\ last_step' = NoStep
    /\ uuid_source' \in UuidSources
    /\ UNCHANGED <<config_doc, tracks_file, prev_call, open_tracks, memoryVars>>

(* The rest of POST /associate: save_tracks and the response, or 500 when  *)
(* associate_detections raised.                                            *)
AssociateRespond ==
    /\ request = "associate"
    /\ pc \in {"done", "error"}
    /\ IF pc = "done"
       THEN /\ tracks_file' = tracks
            /\ response' = [endpoint |-> "associate", status |-> 200, tracks |-> tracks]
            /\ prev_call' = [returned |-> TRUE, detections |-> detections,
                             tracks |-> tracks]
       ELSE /\ UNCHANGED <<tracks_file, prev_call>>
            /\ response' = [endpoint |-> "associate", status |-> 500]
    /\ request' = "none"
    /\ pc' = "idle"
    /\ served' = served + 1
    /\ UNCHANGED <<config_doc, tracking_service, uuid_source, detections, windows, window_idx,
                   transitionVars, open_tracks, tracks, used_ids, outcome,
                   open_before, last_step, memoryVars>>

(* GET /topology (the handler registered first, lines 187-227): it reads   *)
(* e['distance_m'] of every edge of the service.                           *)
EdgesReadable(es) == \A i \in DOMAIN es : es[i].distance_m # None

TopologyRequest ==
    /\ Idle
    /\ LET got == GetTrackingService(tracking_service, config_doc)
       IN /\ tracking_service' = got.global
          /\ response' = IF got.ok /\ EdgesReadable(got.global.obj.edges)
                         THEN [endpoint |-> "topology", status |-> 200,
                               nodes |-> got.global.obj.nodes,
                               edges |-> got.global.obj.edges]
                         ELSE [endpoint |-> "topology", status |-> 500]
    /\ served' = served + 1
    /\ UNCHANGED <<config_doc, tracks_file, request, prev_call, memoryVars, callVars>>

(* POST /reconcile/{track_id}?action=... (lines 230-273), with load_tracks *)
(* and save_tracks of the service.                                         *)
ReconcileActions == {"confirm", "flag", "delete", "archive"}

TrackIds == {"u1", "u4", "unknown"}

(* next((t for t in tracks if t['track_id'] == track_id), None) *)
FirstWithId(stored, track_id) ==
    IF \E i \in DOMAIN stored : stored[i].track_id = track_id
    THEN CHOOSE i \in DOMAIN stored :
             /\ stored[i].track_id = track_id
             /\ \A j \in 1..(i - 1) : stored[j].track_id # track_id
    ELSE 0

(* Mutant of ReconcileTracks: the action is applied to every stored track. *)
ReconcileTracksEveryTrack(stored, track_id, action) ==
    CASE action = "confirm" -> [i \in DOMAIN stored |-> [stored[i] EXCEPT !.status = "confirmed"]]
      [] action = "flag" -> [i \in DOMAIN stored |-> [stored[i] EXCEPT !.status = "needs_review"]]
      [] OTHER -> <<>>

(* lines 254-259 for a track that was found *)
ReconcileTracks(stored, track_id, action) ==
    CASE action = "confirm" ->
            [stored EXCEPT ![FirstWithId(stored, track_id)].status = "confirmed"]
      [] action = "flag" ->
            [stored EXCEPT ![FirstWithId(stored, track_id)].status = "needs_review"]
      [] OTHER -> SelectSeq(stored, LAMBDA t : t.track_id # track_id)

ReconcileRequest ==
    /\ Idle
    /\ \E track_id \in TrackIds, action \in ReconcileActions :
          LET reply(status) == [endpoint |-> "reconcile", status |-> status,
                                track_id |-> track_id, action |-> action]
          IN IF action \notin {"confirm", "flag", "delete"}
             THEN /\ response' = reply(400)
                  /\ UNCHANGED <<tracking_service, tracks_file>>
             ELSE LET got == GetTrackingService(tracking_service, config_doc)
                  IN /\ tracking_service' = got.global
                     /\ IF ~got.ok
                        THEN /\ response' = reply(500)
                             /\ UNCHANGED tracks_file
                        ELSE IF FirstWithId(tracks_file, track_id) = 0
                        THEN /\ response' = reply(404)
                             /\ UNCHANGED tracks_file
                        ELSE /\ response' = reply(200)
                             /\ tracks_file' = ReconcileTracks(tracks_file, track_id, action)
    /\ served' = served + 1
    /\ UNCHANGED <<config_doc, request, prev_call, memoryVars, callVars>>

ServiceInit ==
    /\ config_doc \in AllConfigs
    /\ tracking_service = [is_none |-> TRUE, obj |-> NewService]
    /\ tracks_file = <<>>
    /\ request = "none"
    /\ response = NoResponse
    /\ served = 0
    /\ prev_call = NoCall
    /\ memory_store = EmptyStore
    /\ memory_files = NoFiles
    /\ pc = "idle"
    /\ uuid_source \in UuidSources
    /\ detections = <<>>
    /\ CallIdle

ServiceNext ==
    \/ AssociateRequest
    \/ AssociateRespond
    \/ TopologyRequest
    \/ ReconcileRequest
    \/ CallStep

SpecService == ServiceInit /\ [][ServiceNext]_vars

(* ---------------- one call on a raw batch ---------------- *)
(* The batches a caller may pass: a batch of ServiceBatches with up to     *)
(* MaxOdd further detections put in at any position.  A further detection  *)
(* has any time of RawTimes, or no "ts", or a "ts" that is not ISO-8601,   *)
(* or one that is neither a string nor a datetime; or it lacks "node_id"   *)
(* or "class" (one defect per detection).  Its time may be earlier than    *)
(* that of its predecessor.                                                *)
MaxOdd == 1

RawTimes == {0, 3, 6, 20}

RawDets(det_id) ==
    {[det_id |-> det_id, ts |-> t, class |-> "monitor", node_id |-> n] :
        t \in RawTimes \cup {None, BadString, OtherType}, n \in {1, 2}}
    \cup {[det_id |-> det_id, ts |-> t, class |-> "monitor", node_id |-> None] :
             t \in RawTimes}
    \cup {[det_id |-> det_id, ts |-> t, class |-> "absent", node_id |-> n] :
             t \in RawTimes, n \in {1, 2}}

InsertAt(dets, p, d) == SubSeq(dets, 1, p) \o <<d>> \o SubSeq(dets, p + 1, Len(dets))

(* dets with ds[1], ..., ds[n] put in one after the other, ds[k] after     *)
(* position ps[k], under the det_id 10 + k                                 *)
RECURSIVE WithInserted(_, _, _, _)
WithInserted(dets, ps, ds, n) ==
    IF n = 0 THEN dets
    ELSE InsertAt(WithInserted(dets, ps, ds, n - 1), ps[n],
                  [ds[n] EXCEPT !.det_id = 10 + n])

InputInit ==
    /\ config_doc \in GoodConfigs
    /\ tracking_service = [is_none |-> FALSE, obj |-> LoadedService(config_doc)]
    /\ tracks_file = <<>>
    /\ request = "none"
    /\ response = NoResponse
    /\ served = 0
    /\ prev_call = NoCall
    /\ memory_store = EmptyStore
    /\ memory_files = NoFiles
    /\ pc = "start"
    /\ uuid_source = <<"u1", "u2", "u3", "u4">>
    /\ \E b \in ServiceBatches : \E n \in 0..MaxOdd :
          \E ps \in [1..n -> 0..(Len(b) + n - 1)], ds \in [1..n -> RawDets(0)] :
             /\ \A m \in 1..n : ps[m] <= Len(b) + m - 1
             /\ detections = WithInserted(b, ps, ds, n)
    /\ CallIdle

InputNext == CallStep

SpecInput == InputInit /\ [][InputNext]_vars

(* ---------------- load_topology on its own ---------------- *)
(* The documents: four nodes and up to MaxEdges edges, each between two    *)
(* different nodes in either direction, with a float distance_m of         *)
(* TopoWeights (in the unit of the last digit kept).  A pair may be listed *)
(* more than once.                                                         *)
MaxEdges == 3

TopoNodes == <<[id |-> 1], [id |-> 2], [id |-> 3], [id |-> 4]>>

TopoWeights == {4, 99}

TopoEdges ==
    {[from |-> a, to |-> b, distance_m |-> w] :
        a \in 1..4, b \in 1..4, w \in TopoWeights} \ 
    {[from |-> a, to |-> a, distance_m |-> w] : a \in 1..4, w \in TopoWeights}

(* TrackingService() followed by load_topology(), routers/tracking.py 29-30 *)
LoadStep ==
    /\ pc = "load"
    /\ tracking_service' = [is_none |-> FALSE, obj |-> LoadDoc(NewService, config_doc).svc]
    /\ pc' = "idle"
    /\ UNCHANGED <<config_doc, tracks_file, request, response, served, prev_call,
                   memoryVars,
                   uuid_source, detections, windows, window_idx, transitionVars,
                   open_tracks, tracks, used_ids, outcome, open_before, last_step>>

TopologyInit ==
    /\ \E n \in 0..MaxEdges : \E es \in [1..n -> TopoEdges] :
          config_doc = [kind |-> "ok", nodes |-> TopoNodes, edges |-> es]
    /\ tracking_service = [is_none |-> TRUE, obj |-> NewService]
    /\ tracks_file = <<>>
    /\ request = "none"
    /\ response = NoResponse
    /\ served = 0
    /\ prev_call = NoCall
    /\ memory_store = EmptyStore
    /\ memory_files = NoFiles
    /\ pc = "load"
    /\ uuid_source = <<"u1", "u2", "u3", "u4">>
    /\ detections = <<>>
    /\ CallIdle

TopologyNext == LoadStep

SpecTopology == TopologyInit /\ [][TopologyNext]_vars

(* ---------------- scoring on its own ---------------- *)
(* compute_link_confidence and _finalize_track applied to costs of         *)
(* ScoreCosts (millionths; 0, values below, at and above 1): a track is    *)
(* created or extended with links of these costs as in lines 324-356, up   *)
(* to MaxLinks links, and finalized by the final loop (lines 368-374).     *)
MaxLinks == 3

ScoreCosts == {0, 1000, 221000, 500000, 750400, 999600, 1000000, 1350000}

ScoreLink ==
    /\ pc = "window"
    /\ windows = <<>>
    /\ IF open_tracks = <<>> THEN TRUE
       ELSE Len(RemainingOpen(open_tracks)[1].links) < MaxLinks
    /\ \E cost \in ScoreCosts :
         LET reuse == open_tracks # <<>>
             from_node == IF reuse THEN open_tracks[1].node_id ELSE 1
             to_node == 3 - from_node
             n == IF reuse THEN Len(Top(open_tracks, from_node).links) ELSE 0
             exit_det == [det_id |-> n + 1, ts |-> 6 * n, class |-> "monitor",
                          node_id |-> from_node]
             entry_det == [det_id |-> n + 2, ts |-> 6 * n + 6, class |-> "monitor",
                           node_id |-> to_node]
             id == GenerateTrackId(uuid_source, used_ids)
             track == IF reuse THEN Top(open_tracks, from_node) ELSE NewTrack(id, exit_det)
             link == MakeLink(exit_det, entry_det, ComputeLinkConfidence(cost))
         IN /\ open_tracks' = PushAt(<<>>, to_node, [track EXCEPT !.links = Append(@, link)])
            /\ used_ids' = IF reuse THEN used_ids ELSE used_ids \cup {id}
            /\ last_step' = [kind |-> "score", cost |-> cost]
    /\ UNCHANGED <<pc, uuid_source, detections, windows, window_idx, transitionVars, tracks,
                   outcome, open_before, routerVars>>

ScoreInit ==
    /\ config_doc = "line"
    /\ tracking_service = [is_none |-> FALSE, obj |-> LoadedService(config_doc)]
    /\ tracks_file = <<>>
    /\ request = "none"
    /\ response = NoResponse
    /\ served = 0
    /\ prev_call = NoCall
    /\ memory_store = EmptyStore
    /\ memory_files = NoFiles
    /\ pc = "window"
    /\ uuid_source = <<"u1", "u2", "u3", "u4">>
    /\ detections = <<>>
    /\ CallIdle

ScoreNext == ScoreLink \/ FinalizeRemaining

SpecScore == ScoreInit /\ [][ScoreNext]_vars

(* ---------------- the memory store on its own ---------------- *)
(* A MemoryStore on an empty data directory, then any sequence of its     *)
(* mutating operations and of restarts (a new MemoryStore on the same     *)
(* directory, line 465), with at most MaxMemories object memories and     *)
(* MaxSystem system memories stored at a time, and no pattern counting    *)
(* more than MaxObservations observations.  An id is a value no stored    *)
(* memory has.                                                             *)
MaxMemories == 2

MaxSystem == 1

MaxObservations == 3

Observations(dict, obj_name) ==
    IF KeyIndex(dict, obj_name) = 0 THEN 0
    ELSE dict[KeyIndex(dict, obj_name)].total_observations

FreshId(mems) == CHOOSE id \in 1..(Len(mems) + 1) : \A i \in DOMAIN mems : mems[i].id # id

MemoryState == [store |-> memory_store, files |-> memory_files]

MemoryStep(ms, op) ==
    /\ memory_store' = ms.store
    /\ memory_files' = ms.files
    /\ last_step' = [kind |-> op]
    /\ UNCHANGED <<config_doc, tracking_service, tracks_file, request, response, served,
                   prev_call, pc, uuid_source, detections, windows, window_idx,
                   transitionVars, open_tracks, tracks, used_ids, outcome, open_before>>

StoreObjectMemory ==
    /\ pc = "memory"
    /\ Len(memory_store.object_memories) < MaxMemories
    /\ \E name \in ObjectNames, loc \in Locations, t \in Timestamps :
          /\ Observations(memory_store.pattern_memories, Lower(name)) < MaxObservations
          /\ MemoryStep(StoreObjectMemoryOp(MemoryState,
                           [id |-> FreshId(memory_store.object_memories), timestamp |-> t,
                            object_name |-> name, location_description |-> loc]),
                        "store_object_memory")

DeleteObjectMemory ==
    /\ pc = "memory"
    /\ \E memory_id \in 1..MaxMemories :
          MemoryStep(DeleteObjectMemoryOp(MemoryState, memory_id), "delete_object_memory")

StoreSystemMemory ==
    /\ pc = "memory"
    /\ Len(memory_store.system_memories) < MaxSystem
    /\ \E d \in Descriptions, t \in Timestamps :
          MemoryStep(StoreSystemMemoryOp(MemoryState,
                        [id |-> FreshId(memory_store.system_memories), timestamp |-> t,
                         description |-> d]),
                     "store_system_memory")

ResetAllMemories ==
    /\ pc = "memory"
    /\ MemoryStep(ResetAllMemoriesOp(MemoryState), "reset_all_memories")

Restart ==
    /\ pc = "memory"
    /\ MemoryStep([store |-> LoadAllMemories(memory_files), files |-> memory_files],
                  "restart")

MemoryInit ==
    /\ config_doc = "line"
    /\ tracking_service = [is_none |-> TRUE, obj |-> NewService]
    /\ tracks_file = <<>>
    /\ request = "none"
    /\ response = NoResponse
    /\ served = 0
    /\ prev_call = NoCall
    /\ memory_store = LoadAllMemories(NoFiles)
    /\ memory_files = NoFiles
    /\ pc = "memory"
    /\ uuid_source = <<"u1", "u2", "u3", "u4">>
    /\ detections = <<>>
    /\ CallIdle

MemoryNext ==
    \/ StoreObjectMemory
    \/ DeleteObjectMemory
    \/ StoreSystemMemory
    \/ ResetAllMemories
    \/ Restart

SpecMemory == MemoryInit /\ [][MemoryNext]_vars

(* ======================= claims ======================= *)
AllOpen == Flatten(open_tracks, 1)

AllTracks == AllOpen \o tracks

Returned == pc = "done" /\ outcome = "returned"

Count(seq, track_id) == Cardinality({i \in DOMAIN seq : seq[i].track_id = track_id})

(* C1: in every returned track the links are in chronological order: the   *)
(* exit time of link k+1 is not earlier than the entry time of link k.     *)
C1_LinksChronological ==
    Returned =>
        \A i \in DOMAIN tracks :
            \A j \in 1..(Len(tracks[i].links) - 1) :
                tracks[i].links[j + 1].t_exit >= tracks[i].links[j].t_entry

(* C2: in every track, open or returned, consecutive links are spatially   *)
(* chained: to_node_id of link k is from_node_id of link k+1.              *)
C2_SpatiallyChained ==
    \A i \in DOMAIN AllTracks :
        \A j \in 1..(Len(AllTracks[i].links) - 1) :
            AllTracks[i].links[j].to_node_id = AllTracks[i].links[j + 1].from_node_id

C2_Witness ==
    /\ Returned
    /\ Len(windows) >= 3
    /\ \E i \in DOMAIN tracks : Len(tracks[i].links) >= 3

(* C3: causality: no link of any track has t_entry earlier than t_exit.    *)
C3_Causality ==
    \A i \in DOMAIN AllTracks :
        \A j \in DOMAIN AllTracks[i].links :
            AllTracks[i].links[j].t_entry >= AllTracks[i].links[j].t_exit

C3_Witness ==
    /\ Returned
    /\ \E i \in DOMAIN tracks : \E j \in DOMAIN tracks[i].links :
          tracks[i].links[j].t_entry > tracks[i].links[j].t_exit

(* C4: on a loaded topology associate_detections never raises: it always   *)
(* completes with a track list.                                            *)
C4_AssociateNeverRaises == pc # "error"

(* C5: no partial or absent topology is ever served: a request that needs  *)
(* the tracking service is answered successfully only if load_topology     *)
(* completed on the configuration.                                         *)
TopologyLoaded == ConfigDocs[config_doc].kind = "ok"

C5_NoPartialTopologyServed ==
    (response.endpoint \in {"associate", "topology"} /\ response.status = 200)
        => TopologyLoaded

(* C6: an unmatched exit never leaves an open track waiting at its node:   *)
(* after a transition without any feasible pair no exit's node holds an    *)
(* open track, and an unmatched exit is dropped only at a node without one.*)
C6_UnmatchedExitFinalizes ==
    /\ last_step.kind = "skip" =>
          \A i \in DOMAIN exits : OpenAt(open_tracks, exits[i].node_id) = <<>>
    /\ last_step.kind = "unmatched_drop" =>
          OpenAt(open_tracks, last_step.node_id) = <<>>

(* C7: an unmatched exit at a node that holds no open track is dropped     *)
(* silently: the loop over the exits raises no IndexError.                 *)
C7_UnmatchedExitDroppedSilently == outcome # "IndexError"

(* C8: every track created during the call is in exactly one place: while  *)
(* the call runs, once in one open list or once in the output list; when   *)
(* the call has returned, once in the returned list; and every track of the*)
(* output list carries its computed confidence and the derived status.     *)
C8_EveryTrackFinalizedOnce ==
    /\ pc \in {"window", "match", "unmatched", "error"} =>
          \A id \in used_ids : Count(AllOpen, id) + Count(tracks, id) = 1
    /\ Returned => \A id \in used_ids : Count(tracks, id) = 1
    /\ \A i \in DOMAIN tracks :
          LET t == tracks[i]
          IN /\ t.track_id \in used_ids
             /\ t.confidence =
                   (IF t.links = <<>> THEN 0
                    ELSE GeometricMean([j \in DOMAIN t.links |-> t.links[j].confidence]))
             /\ (t.status = "needs_review") <=> (t.confidence < ReviewThreshold)

C8_Witness ==
    /\ Returned
    /\ Len(RemainingOpen(open_tracks)) >= 1
    /\ Len(tracks) > Len(RemainingOpen(open_tracks))

(* C9: a step that processes an accepted match e -> n pops the most        *)
(* recently pushed track of e's node if there is one, else creates a track *)
(* of e's class without links; it appends exactly the link e.node ->       *)
(* n.node to it and pushes it onto the list of n's node; nothing else      *)
(* changes in the map or in the output.                                    *)
MatchEffect ==
    LET e == exits[matches[k][1]]
        n == entries[matches[k][2]]
        waiting == OpenAt(open_tracks, e.node_id)
        arrived == OpenAt(open_tracks', n.node_id)
        pushed == arrived[Len(arrived)]
        link == pushed.links[Len(pushed.links)]
    IN /\ arrived # <<>>
       /\ SubSeq(arrived, 1, Len(arrived) - 1) = OpenAt(open_tracks, n.node_id)
       /\ pushed.links # <<>>
       /\ link.from_node_id = e.node_id /\ link.to_node_id = n.node_id
       /\ link.t_exit = e.ts /\ link.t_entry = n.ts
       /\ IF waiting # <<>>
          THEN /\ pushed = [waiting[Len(waiting)] EXCEPT !.links = Append(@, link)]
               /\ OpenAt(open_tracks', e.node_id) = SubSeq(waiting, 1, Len(waiting) - 1)
               /\ used_ids' = used_ids
          ELSE /\ pushed.class = e.class
               /\ Len(pushed.links) = 1
               /\ pushed.track_id \notin used_ids
               /\ used_ids' = used_ids \cup {pushed.track_id}
               /\ OpenAt(open_tracks', e.node_id) = <<>>
       /\ \A x \in NodeIds \ {e.node_id, n.node_id} :
             OpenAt(open_tracks', x) = OpenAt(open_tracks, x)
       /\ tracks' = tracks

C9_MatchReusesOrCreates ==
    [][(pc = "match" /\ pc' \in {"match", "unmatched"}) => MatchEffect]_vars

C9_Witness ==
    /\ last_step.kind = "match"
    /\ last_step.reused
    /\ last_step.depth >= 2

(* C10: same-node exclusion: no link of any track joins a node to itself.  *)
C10_SameNodeExclusion ==
    \A i \in DOMAIN AllTracks :
        \A j \in DOMAIN AllTracks[i].links :
            AllTracks[i].links[j].from_node_id # AllTracks[i].links[j].to_node_id

C10_Witness ==
    /\ last_step.kind = "match"
    /\ \E i \in DOMAIN exits : \E j \in DOMAIN entries :
          exits[i].node_id = entries[j].node_id

(* C11: every link joins two different nodes with a defined shortest-path  *)
(* distance d and its transit time a = t_entry - t_exit satisfies          *)
(* 0.3 * d / 1.3 <= a <= 3 * d / 1.3 + 8; a cell of the cost matrix is     *)
(* finite exactly when its exit and entry satisfy these conditions; and no *)
(* selected match has an infinite cell.                                    *)
InBand(d, a) ==
    /\ a >= 0
    /\ 3 * d <= NormalSpeedTenths * a
    /\ NormalSpeedTenths * a <= 30 * d + NormalSpeedTenths * TimePad

Feasible(from_node, to_node, a) ==
    LET d == GetDistance(svc.shortest_paths, from_node, to_node)
    IN from_node # to_node /\ d # None /\ InBand(d, a)

RECURSIVE ConcatWindows(_, _)
ConcatWindows(ws, i) ==
    IF i > Len(ws) THEN <<>> ELSE ws[i] \o ConcatWindows(ws, i + 1)

SortedInput == SortByTs(ParseDetections(detections))

(* the state right after lines 208-265 ran; windows is not assigned again *)
Segmented == last_step.kind = "segment" /\ SortedInput # <<>>

C12_Windowing ==
    Segmented =>
        /\ ConcatWindows(windows, 1) = SortedInput
        /\ \A w \in DOMAIN windows :
              /\ windows[w] # <<>>
              /\ \A p \in 1..(Len(windows[w]) - 1) :
                    windows[w][p + 1].ts - windows[w][p].ts <= WindowGap
        /\ \A p \in 1..(Len(SortedInput) - 1) :
              SortedInput[p + 1].ts - SortedInput[p].ts > WindowGap =>
                  \E w \in 1..(Len(windows) - 1) :
                      /\ windows[w][Len(windows[w])] = SortedInput[p]
                      /\ windows[w + 1][1] = SortedInput[p + 1]

C12_Witness ==
    /\ Segmented
    /\ Len(windows) >= 3
    /\ \E w \in DOMAIN windows : Len(windows[w]) >= 2
    /\ \E w \in DOMAIN windows : Len(windows[w]) = 1

(* C13: exit/entry extraction.  While the transition from window i to      *)
(* window i+1 is processed there is exactly one exit per node that appears *)
(* in window i, a detection of window i with the latest timestamp at that  *)
(* node, and exactly one entry per node that appears in window i+1, a      *)
(* detection of window i+1 with the earliest timestamp at that node.       *)
OnePerNode(selected, window) ==
    /\ {selected[i].node_id : i \in DOMAIN selected} = {window[i].node_id : i \in DOMAIN window}
    /\ \A i, j \in DOMAIN selected : selected[i].node_id = selected[j].node_id => i = j
    /\ \A i \in DOMAIN selected : selected[i] \in Range(window)

C13_ExitEntryExtraction ==
    pc \in {"match", "unmatched"} =>
        LET prev_window == windows[window_idx]
            curr_window == windows[window_idx + 1]
        IN /\ OnePerNode(exits, prev_window)
           /\ OnePerNode(entries, curr_window)
           /\ \A i \in DOMAIN exits : \A p \in DOMAIN prev_window :
                 prev_window[p].node_id = exits[i].node_id => prev_window[p].ts <= exits[i].ts
           /\ \A i \in DOMAIN entries : \A p \in DOMAIN curr_window :
                 curr_window[p].node_id = entries[i].node_id => curr_window[p].ts >= entries[i].ts

C13_Witness ==
    /\ pc = "match"
    /\ Len(windows[window_idx]) > Len(exits)
    /\ Len(windows[window_idx + 1]) > Len(entries)

(* C14: the matching of a transition is one-to-one: no two selected        *)
(* matches share their exit or their entry, whatever the numbers of exits  *)
(* and entries; hence over all tracks no two links start from the same     *)
(* exit detection and no two links end in the same entry detection.        *)
(* the tracks of the call: the returned list once the call has returned   *)
(* (the open lists are not emptied by the final loop), else the open       *)
(* tracks and the output list                                              *)
CallTracks == IF pc = "done" THEN tracks ELSE AllTracks

AllLinks ==
    {<<i, j>> \in (DOMAIN CallTracks) \X (1..MaxDets) : j \in DOMAIN CallTracks[i].links}

LinkAt(p) == CallTracks[p[1]].links[p[2]]

C14_OneToOne ==
    /\ pc \in {"match", "unmatched"} =>
          \A a, b \in DOMAIN matches :
              a # b => matches[a][1] # matches[b][1] /\ matches[a][2] # matches[b][2]
    /\ \A p, q \in AllLinks :
          p # q =>
             /\ ~(LinkAt(p).from_node_id = LinkAt(q).from_node_id
                    /\ LinkAt(p).t_exit = LinkAt(q).t_exit)
             /\ ~(LinkAt(p).to_node_id = LinkAt(q).to_node_id
                    /\ LinkAt(p).t_entry = LinkAt(q).t_entry)

C14_Witness ==
    /\ pc = "unmatched"
    /\ Len(exits) > Len(entries)
    /\ Len(matches) = Len(entries)
    /\ \E j \in DOMAIN entries : \E a, b \in DOMAIN exits :
          a # b /\ ~IsInf(C[a][j]) /\ ~IsInf(C[b][j])

(* The windows lines 208-265 build for a batch; none when the call returns *)
(* at once (lines 208-209, 236-237).                                       *)
WindowsOf(dets) ==
    IF dets = <<>> \/ ParseDetections(dets) = <<>> THEN <<>>
    ELSE MakeWindows(SortByTs(ParseDetections(dets)))

Without(dets, i) == SubSeq(dets, 1, i - 1) \o SubSeq(dets, i + 1, Len(dets))

InSomeWindow(det_id) ==
    \E w \in DOMAIN windows : \E p \in DOMAIN windows[w] : windows[w][p].det_id = det_id

(* The detection is dropped: it is in no window and the windows are those  *)
(* of the batch without it.  Everything the call does after segmenting is  *)
(* a function of the windows, the topology and the ids drawn.              *)
Dropped(i) ==
    /\ ~InSomeWindow(detections[i].det_id)
    /\ windows = WindowsOf(Without(detections, i))

JustSegmented == last_step.kind = "segment"

(* no "ts", a string that is not ISO-8601, or a value of another type *)
Unparseable(ts) == ts \in {None, BadString, OtherType}

(* C15: a detection whose timestamp is earlier than that of a detection    *)
(* before it in the input sequence is dropped: it is put in no window and  *)
(* the others are processed as if it were absent.                          *)
OutOfOrder(i) ==
    /\ ~Unparseable(detections[i].ts)
    /\ \E j \in 1..(i - 1) :
          ~Unparseable(detections[j].ts) /\ detections[j].ts > detections[i].ts

C15_OutOfOrderDropped ==
    JustSegmented => \A i \in DOMAIN detections : OutOfOrder(i) => Dropped(i)

(* C16: a detection whose timestamp cannot be parsed (no "ts", not an ISO  *)
(* string, not a timestamp type) is skipped: it is in no window and the    *)
(* call goes on with the windows of the batch without that detection.      *)
C16_UnparseableSkipped ==
    JustSegmented =>
        \A i \in DOMAIN detections : Unparseable(detections[i].ts) => Dropped(i)

C16_Witness ==
    /\ JustSegmented
    /\ Len(windows) >= 2
    /\ \E i \in DOMAIN detections : Unparseable(detections[i].ts)

(* C17: a detection with a timestamp that lacks node_id or class is        *)
(* skipped: it is in no window, hence at no node, and the call goes on     *)
(* with the windows of the batch without that detection.                   *)
LacksField(i) ==
    /\ ~Unparseable(detections[i].ts)
    /\ detections[i].node_id = None \/ detections[i].class = "absent"

C17_MissingFieldSkipped ==
    JustSegmented => \A i \in DOMAIN detections : LacksField(i) => Dropped(i)

(* C18: degenerate input is not an error.  For an empty batch and for a    *)
(* batch of which no detection can be parsed the call returns the empty    *)
(* list at once; for a batch that forms a single window the call makes no  *)
(* track, raises nothing and returns the empty list.                       *)
C18_DegenerateInput ==
    last_step.kind # "none" =>
        /\ (detections = <<>> \/ ParseDetections(detections) = <<>>) =>
              Returned /\ tracks = <<>>
        /\ Len(windows) <= 1 =>
              /\ pc \in {"window", "done"}
              /\ outcome \in {"running", "returned"}
              /\ open_tracks = <<>> /\ tracks = <<>>
              /\ pc = "window" => last_step.kind = "segment"

C18_Witness ==
    /\ Returned
    /\ last_step.kind = "finalize_rest"
    /\ Len(windows) = 1
    /\ Len(windows[1]) >= 2
    /\ tracks = <<>>

(* C19: determinism.  A call of associate_detections that returns on the   *)
(* same detections, in the same order, on the same topology as the last    *)
(* call that returned, returns the same track records (track_id, class,    *)
(* links, confidence, status) in the same order.                           *)
C19_Determinism ==
    (request = "associate" /\ Returned /\ prev_call.returned
        /\ prev_call.detections = detections)
      => tracks = prev_call.tracks

(* C20: confidence bounds.  Every link confidence and every track          *)
(* confidence lies in [0, 1], whatever the cost (costs above 1 included);  *)
(* a link of cost 0 has confidence 1.0 and a finalized track whose only    *)
(* link has confidence 1.0 has confidence exactly 1.0.                     *)
InUnit(c) == 0 <= c /\ c <= ConfUnit

C20_ConfidenceBounds ==
    /\ \A i \in DOMAIN CallTracks :
          /\ InUnit(CallTracks[i].confidence)
          /\ \A j \in DOMAIN CallTracks[i].links : InUnit(CallTracks[i].links[j].confidence)
    /\ last_step.kind = "score" =>
          LET l == AllOpen[1].links[Len(AllOpen[1].links)]
          IN /\ last_step.cost = 0 => l.confidence = ConfUnit
             /\ last_step.cost >= CostUnit => l.confidence = 0
    /\ \A i \in DOMAIN tracks :
          (Len(tracks[i].links) = 1 /\ tracks[i].links[1].confidence = ConfUnit)
              => tracks[i].confidence = ConfUnit

C20_Witness ==
    /\ Returned
    /\ \E i \in DOMAIN tracks :
          /\ \E j \in DOMAIN tracks[i].links : tracks[i].links[j].confidence = 0
          /\ \E j \in DOMAIN tracks[i].links : tracks[i].links[j].confidence = ConfUnit

(* C21: the status of every track of the output list is derived from its   *)
(* confidence: needs_review below 0.5, active otherwise; no track of the   *)
(* core has the status confirmed.                                          *)
C21_StatusDerived ==
    /\ \A i \in DOMAIN tracks :
          tracks[i].status = (IF 2 * tracks[i].confidence < ConfUnit THEN "needs_review"
                                                                     ELSE "active")
    /\ \A i \in DOMAIN AllTracks : AllTracks[i].status # "confirmed"

C21_Witness ==
    /\ Returned
    /\ \E i \in DOMAIN tracks : tracks[i].status = "needs_review"
    /\ \E i \in DOMAIN tracks : tracks[i].status = "active"

(* C22: distance symmetry.  After load, for every pair of nodes a, b:      *)
(* get_distance(a, b) is defined exactly when get_distance(b, a) is, and   *)
(* the two values are equal.                                               *)
C22_DistanceSymmetry ==
    ~tracking_service.is_none =>
        \A a, b \in GraphNodes(svc.nodes, svc.edges) :
            GetDistance(svc.shortest_paths, a, b) = GetDistance(svc.shortest_paths, b, a)

(* C23: the topology is read-only after load and a call sees no working    *)
(* state of another call.  Once the service object exists no step changes  *)
(* its nodes, edges, shortest-path table or config; and while a call runs  *)
(* and when it has returned, every link of its open tracks and of its      *)
(* output has its exit and its entry among the detections of this call.    *)
FromThisCall(node_id, ts) ==
    \E i \in DOMAIN detections :
        ParseOne(detections[i]).node_id = node_id /\ detections[i].ts = ts

OwnWorkingState ==
    pc \in {"window", "match", "unmatched", "done", "error"} =>
        \A i \in DOMAIN AllTracks : \A j \in DOMAIN AllTracks[i].links :
            LET l == AllTracks[i].links[j]
            IN /\ FromThisCall(l.from_node_id, l.t_exit)
               /\ FromThisCall(l.to_node_id, l.t_entry)

TopologyUnchanged ==
    ~tracking_service.is_none => tracking_service' = tracking_service

C23_TopologyReadOnly == [][TopologyUnchanged /\ OwnWorkingState']_vars

C23_Witness ==
    /\ request = "associate"
    /\ Returned
    /\ tracks # <<>>
    /\ prev_call.returned
    /\ prev_call.tracks # <<>>
    /\ prev_call.detections # detections

(* C24: the memory store saves after every change.  After each mutating   *)
(* operation of MemoryStore the three files hold what the three in-memory *)
(* collections hold, so that a new MemoryStore on the same directory      *)
(* loads the state the old one had.                                       *)
Mutating == {"store_object_memory", "delete_object_memory", "store_system_memory",
             "reset_all_memories"}

C24_DiskEqualsMemory ==
    (pc = "memory" /\ last_step.kind \in Mutating) =>
        LoadAllMemories(memory_files) = memory_store

(* C25: windows are maximal gap-delimited runs.  After segmentation a      *)
(* window boundary lies only where the gap between the two consecutive     *)
(* detections it separates exceeds WindowGap; detections at most WindowGap *)
(* apart are in the same window.                                           *)
C25_MaximalRuns ==
    Segmented =>
        \A w \in 1..(Len(windows) - 1) :
            windows[w + 1][1].ts - windows[w][Len(windows[w])].ts > WindowGap

(* C26: reconcile changes only the targeted stored track.  A reconcile     *)
(* request answered 200 leaves every stored track with another id as it    *)
(* was and in place; confirm sets the status of the track with the id to   *)
(* confirmed, flag to needs_review, delete removes exactly that track.  A  *)
(* request answered 400 (action outside confirm, flag, delete) or 404      *)
(* (unknown id) leaves the stored list unchanged.                          *)
Reconciled == served' = served + 1 /\ response'.endpoint = "reconcile"

WithStatus(stored, track_id, status) ==
    [i \in DOMAIN stored |->
        IF stored[i].track_id = track_id THEN [stored[i] EXCEPT !.status = status]
        ELSE stored[i]]

IsStored(track_id) == \E i \in DOMAIN tracks_file : tracks_file[i].track_id = track_id

ReconcileEffect ==
    LET r == response'
    IN /\ r.action \notin {"confirm", "flag", "delete"} => r.status = 400
       /\ (r.status = 200 \/ r.status = 404) => (r.status = 404 <=> ~IsStored(r.track_id))
       /\ r.status \in {400, 404} => tracks_file' = tracks_file
       /\ (r.status = 200 /\ r.action = "confirm") =>
              tracks_file' = WithStatus(tracks_file, r.track_id, "confirmed")
       /\ (r.status = 200 /\ r.action = "flag") =>
              tracks_file' = WithStatus(tracks_file, r.track_id, "needs_review")
       /\ (r.status = 200 /\ r.action = "delete") =>
              /\ tracks_file' = Without(tracks_file, FirstWithId(tracks_file, r.track_id))
              /\ ~\E i \in DOMAIN tracks_file' : tracks_file'[i].track_id = r.track_id

C26_ReconcileFrame == [][Reconciled => ReconcileEffect]_vars

C26_Witness ==
    /\ response.endpoint = "reconcile"
    /\ response.status = 200
    /\ response.action = "confirm"
    /\ Len(tracks_file) >= 2
    /\ \E i \in DOMAIN tracks_file :
          tracks_file[i].track_id = response.track_id /\ tracks_file[i].status = "confirmed"
    /\ \E i \in DOMAIN tracks_file : tracks_file[i].status # "confirmed"

(* C30: a stored track that reconcile promoted to confirmed stays stored   *)
(* with status confirmed over every step that is not a reconcile flag or   *)
(* delete of that track; a later POST /associate does not remove or alter  *)
(* it.                                                                     *)
TargetedBy(track_id) ==
    /\ Reconciled
    /\ response'.status = 200
    /\ response'.track_id = track_id
    /\ response'.action \in {"flag", "delete"}

StoredConfirmed(stored, track_id) ==
    \E i \in DOMAIN stored :
        stored[i].track_id = track_id /\ stored[i].status = "confirmed"

ConfirmedKept ==
    \A i \in DOMAIN tracks_file :
        (tracks_file[i].status = "confirmed" /\ ~TargetedBy(tracks_file[i].track_id)) =>
            StoredConfirmed(tracks_file', tracks_file[i].track_id)

C30_ConfirmedPersists == [][ConfirmedKept]_vars

(* C27: a track finalized by an unmatched exit at node X was open at X     *)
(* when the transition began; a track that reached X through a match of    *)
(* the same transition is not popped by an unmatched exit at X.            *)
WasOpenAt(open, node_id, track_id) ==
    \E i \in DOMAIN OpenAt(open, node_id) : OpenAt(open, node_id)[i].track_id = track_id

C27_PoppedWasOpenBefore ==
    last_step.kind = "unmatched_pop" =>
        WasOpenAt(open_before, last_step.node_id, last_step.track_id)

(* C28: a track keeps a single class.  Whenever a match appends a link to  *)
(* a track, the exit detection and the entry detection of the link have    *)
(* the class of the track.                                                 *)
C28_SingleClass ==
    last_step.kind = "match" =>
        LET track == Top(open_tracks, last_step.entry_det.node_id)
        IN /\ track.track_id = last_step.track_id
           /\ last_step.exit_det.class = track.class
           /\ last_step.entry_det.class = track.class

(* C29: every returned track has at least one link.  No track of the call, *)
(* open or finalized, is without links, so that no returned track went     *)
(* through the zero-link branch of _finalize_track.                        *)
C29_AtLeastOneLink ==
    \A i \in DOMAIN AllTracks : Len(AllTracks[i].links) >= 1

C29_Witness ==
    /\ Returned
    /\ Len(tracks) >= 2
    /\ \E i \in DOMAIN tracks : Len(tracks[i].links) >= 2

====
